---- MODULE Spec2Model ----
(***************************************************************************)
(* AzureBlobStorage (src/storage/blob_storage.py): a facade over the Azure *)
(* blob SDK.  The state is the storage account the facade talks to, the    *)
(* facade instance, and the outcome of the latest call.  Every facade      *)
(* method is an operator computing that method's outcome from the account  *)
(* state and its arguments; every action applies one method.               *)
(***************************************************************************)
EXTENDS Integers, Sequences, FiniteSets, TLC

VARIABLES
    store,    \* the storage account: containers and their blobs
    self,     \* the AzureBlobStorage instance most recently constructed
    last,     \* the latest call: method, arguments, error raised, value returned
    lastUp    \* history: per blob, the data of the latest successful upload_blob

vars == <<store, self, last, lastUp>>

-----------------------------------------------------------------------------
(* Bounds and input sets *)

NumBlobs == 2

BlobPool == <<"file1.txt", "file2.txt", "file3.txt", "file4.txt", "file5.txt">>

BlobNames == {BlobPool[i] : i \in 1..NumBlobs}

Containers == {"test-container-1", "test-container-2"}

\* where the callers upload: every name in the first container, and the first
\* name again in the second, so that one blob name lives in two containers
UploadTargets ==
    {<<"test-container-1", n>> : n \in BlobNames} \cup {<<"test-container-2", BlobPool[1]>>}

\* str values are sequences of code points, bytes values sequences of 0..255
StrData == { <<65, 233, 8364, 128512>>,   \* 'A', e-acute, euro sign, U+1F600
             <<55296>> }                  \* a lone surrogate U+D800

BytesData == { <<66, 0, 255>> }           \* embedded null byte, not valid UTF-8

UploadData == [isStr : {TRUE}, v : StrData] \cup [isStr : {FALSE}, v : BytesData]

Encodings == {"utf-8", "latin-1"}

\* what the SDK raises when the request does not get a service answer
Faults == {"none", "ServiceRequestError", "ClientAuthenticationError"}

NoneVal == "<None>"

ValidCreds == {"AccountName=dev;AccountKey=k1", "AccountName=dev;AccountKey=k2"}

ArgCreds == {NoneVal, "", "AccountName=dev;AccountKey=k1", "AccountName"}

EnvCreds == {NoneVal, "", "AccountName=dev;AccountKey=k2"}

-----------------------------------------------------------------------------
(* str.encode('utf-8') and bytes.decode(encoding) *)

IsSurrogate(cp) == cp >= 55296 /\ cp <= 57343

EncodeCp(cp) ==
    IF cp < 128 THEN <<cp>>
    ELSE IF cp < 2048 THEN <<192 + (cp \div 64), 128 + (cp % 64)>>
    ELSE IF cp < 65536 THEN
        <<224 + (cp \div 4096), 128 + ((cp \div 64) % 64), 128 + (cp % 64)>>
    ELSE <<240 + (cp \div 262144), 128 + ((cp \div 4096) % 64),
           128 + ((cp \div 64) % 64), 128 + (cp % 64)>>

RECURSIVE EncodeAll(_)
EncodeAll(s) == IF s = <<>> THEN <<>> ELSE EncodeCp(Head(s)) \o EncodeAll(Tail(s))

Utf8Encode(s) ==
    IF \E i \in 1..Len(s) : IsSurrogate(s[i])
    THEN [err |-> "UnicodeEncodeError", bytes |-> <<>>]
    ELSE [err |-> "none", bytes |-> EncodeAll(s)]

IsCont(b) == b >= 128 /\ b <= 191

\* number of bytes of the sequence starting at b[1], 0 when it is ill-formed
SeqLen(b) ==
    LET b0 == b[1] IN
    IF b0 < 128 THEN 1
    ELSE IF b0 >= 194 /\ b0 <= 223 THEN
        IF Len(b) >= 2 /\ IsCont(b[2]) THEN 2 ELSE 0
    ELSE IF b0 >= 224 /\ b0 <= 239 THEN
        IF Len(b) >= 3 /\ IsCont(b[2]) /\ IsCont(b[3])
           /\ (b0 = 224 => b[2] >= 160) /\ (b0 = 237 => b[2] <= 159)
        THEN 3 ELSE 0
    ELSE IF b0 >= 240 /\ b0 <= 244 THEN
        IF Len(b) >= 4 /\ IsCont(b[2]) /\ IsCont(b[3]) /\ IsCont(b[4])
           /\ (b0 = 240 => b[2] >= 144) /\ (b0 = 244 => b[2] <= 143)
        THEN 4 ELSE 0
    ELSE 0

DecodeCp(b, k) ==
    IF k = 1 THEN b[1]
    ELSE IF k = 2 THEN (b[1] - 192) * 64 + (b[2] - 128)
    ELSE IF k = 3 THEN (b[1] - 224) * 4096 + (b[2] - 128) * 64 + (b[3] - 128)
    ELSE (b[1] - 240) * 262144 + (b[2] - 128) * 4096 + (b[3] - 128) * 64 + (b[4] - 128)

RECURSIVE Utf8Decode(_)
Utf8Decode(b) ==
    IF b = <<>> THEN [err |-> "none", text |-> <<>>]
    ELSE LET k == SeqLen(b) IN
         IF k = 0 THEN [err |-> "UnicodeDecodeError", text |-> <<>>]
         ELSE LET rest == Utf8Decode(SubSeq(b, k + 1, Len(b))) IN
              IF rest.err # "none" THEN rest
              ELSE [err |-> "none", text |-> <<DecodeCp(b, k)>> \o rest.text]

Decode(b, encoding) ==
    IF encoding = "utf-8" THEN Utf8Decode(b)
    ELSE [err |-> "none", text |-> b]    \* latin-1: one code point per byte

-----------------------------------------------------------------------------
(* The storage account behind the SDK client *)

NoBlobs == [n \in {} |-> <<>>]

AbsentContainer == [exists |-> FALSE, blobs |-> NoBlobs]

EmptyContainer == [exists |-> TRUE, blobs |-> NoBlobs]

HasBlob(st, c, n) == st[c].exists /\ n \in DOMAIN st[c].blobs

PutBlob(st, c, n, bytes) ==
    [st EXCEPT ![c].blobs =
        [m \in DOMAIN st[c].blobs \cup {n} |-> IF m = n THEN bytes ELSE st[c].blobs[m]]]

DropBlob(st, c, n) ==
    [st EXCEPT ![c].blobs = [m \in DOMAIN st[c].blobs \ {n} |-> st[c].blobs[m]]]

\* BlobServiceClient.create_container
SdkCreateContainer(st, c, fault) ==
    IF fault # "none" THEN [err |-> fault, st |-> st]
    ELSE IF st[c].exists THEN [err |-> "ResourceExistsError", st |-> st]
    ELSE [err |-> "none", st |-> [st EXCEPT ![c] = EmptyContainer]]

\* BlobServiceClient.delete_container
SdkDeleteContainer(st, c, fault) ==
    IF fault # "none" THEN [err |-> fault, st |-> st]
    ELSE IF ~st[c].exists THEN [err |-> "ResourceNotFoundError", st |-> st]
    ELSE [err |-> "none", st |-> [st EXCEPT ![c] = AbsentContainer]]

\* BlobClient.upload_blob
SdkUploadBlob(st, c, n, bytes, overwrite, fault) ==
    IF fault # "none" THEN [err |-> fault, st |-> st]
    ELSE IF ~st[c].exists THEN [err |-> "ResourceNotFoundError", st |-> st]
    ELSE IF HasBlob(st, c, n) /\ ~overwrite THEN [err |-> "ResourceExistsError", st |-> st]
    ELSE [err |-> "none", st |-> PutBlob(st, c, n, bytes)]

\* BlobClient.download_blob().readall()
SdkDownloadBlob(st, c, n, fault) ==
    IF fault # "none" THEN [err |-> fault, bytes |-> <<>>]
    ELSE IF ~HasBlob(st, c, n) THEN [err |-> "ResourceNotFoundError", bytes |-> <<>>]
    ELSE [err |-> "none", bytes |-> st[c].blobs[n]]

\* BlobClient.get_blob_properties
SdkGetBlobProperties(st, c, n, fault) ==
    IF fault # "none" THEN [err |-> fault]
    ELSE IF ~HasBlob(st, c, n) THEN [err |-> "ResourceNotFoundError"]
    ELSE [err |-> "none"]

\* BlobClient.delete_blob
SdkDeleteBlob(st, c, n, fault) ==
    IF fault # "none" THEN [err |-> fault, st |-> st]
    ELSE IF ~HasBlob(st, c, n) THEN [err |-> "ResourceNotFoundError", st |-> st]
    ELSE [err |-> "none", st |-> DropBlob(st, c, n)]

\* the orders in which a listing can enumerate the names in S, each once
Orderings(S) ==
    {s \in [1..Cardinality(S) -> S] : \A i, j \in DOMAIN s : i # j => s[i] # s[j]}

ListingOrders(st, c) == Orderings(IF st[c].exists THEN DOMAIN st[c].blobs ELSE {})

\* ContainerClient.list_blobs: the blob properties, in the order the service picks
SdkListBlobs(st, c, order, fault) ==
    IF fault # "none" THEN [err |-> fault, items |-> <<>>]
    ELSE IF ~st[c].exists THEN [err |-> "ResourceNotFoundError", items |-> <<>>]
    ELSE [err |-> "none",
          items |-> [i \in DOMAIN order |->
                        [name |-> order[i], container |-> c,
                         size |-> Len(st[c].blobs[order[i]])]]]

\* BlobServiceClient.from_connection_string: parses the string, sends nothing
FromConnectionString(cs) ==
    IF cs \in ValidCreds
    THEN [err |-> "none", client |-> [conn_str |-> cs]]
    ELSE [err |-> "ValueError: malformed connection string", client |-> [conn_str |-> NoneVal]]

-----------------------------------------------------------------------------
(* What a method call gives its caller: the value returned or the error raised, *)
(* the account state it leaves, and the number of service requests it made     *)

Outcome(err, st, reqs) ==
    [err |-> err, st |-> st, reqs |-> reqs, returned |-> FALSE,
     bytes |-> <<>>, text |-> <<>>, names |-> <<>>, flag |-> FALSE,
     hContainer |-> "", hBlob |-> ""]

Raise(err, st, reqs) == Outcome(err, st, reqs)

Return(st, reqs) == [Outcome("none", st, reqs) EXCEPT !.returned = TRUE]

-----------------------------------------------------------------------------
(* class AzureBlobStorage *)

Truthy(x) == x # NoneVal /\ x # ""

\* variant:  a if a is not None else b
PyOr_NoneOnly(a, b) == IF a # NoneVal THEN a ELSE b

\* Python's  a or b
PyOr(a, b) == IF Truthy(a) THEN a ELSE b

NoClient == [conn_str |-> NoneVal]

NoInstance ==
    [constructed |-> FALSE, connection_string |-> NoneVal, blob_service_client |-> NoClient]

\* __init__(connection_string), with environ the value of AZURE_STORAGE_CONNECTION_STRING
AzureBlobStorage(connection_string, environ) ==
    LET cs == PyOr(connection_string, environ) IN
    IF ~Truthy(cs)
    THEN [err |-> "ValueError: Azure Storage connection string is required",
          obj |-> [NoInstance EXCEPT !.connection_string = cs], reqs |-> 0]
    ELSE LET f == FromConnectionString(cs) IN
         IF f.err # "none"
         THEN [err |-> f.err, obj |-> [NoInstance EXCEPT !.connection_string = cs], reqs |-> 0]
         ELSE [err |-> "none",
               obj |-> [constructed |-> TRUE, connection_string |-> cs,
                        blob_service_client |-> f.client],
               reqs |-> 0]

\* variant: no except clause, ResourceExistsError reaches the caller
create_container_NoExcept(st, container_name, fault) ==
    LET r == SdkCreateContainer(st, container_name, fault) IN
    IF r.err = "none"
    THEN [Return(r.st, 1) EXCEPT !.hContainer = container_name]
    ELSE Raise(r.err, r.st, 1)

create_container(st, container_name, fault) ==
    LET r == SdkCreateContainer(st, container_name, fault) IN
    IF r.err = "none"
    THEN [Return(r.st, 1) EXCEPT !.hContainer = container_name]
    ELSE IF r.err = "ResourceExistsError"
    THEN [Return(r.st, 1) EXCEPT !.hContainer = container_name]
    ELSE Raise(r.err, r.st, 1)

\* variant:  data.encode('ascii', 'ignore')
upload_blob_Ascii(st, container_name, blob_name, data, overwrite, fault) ==
    LET bytes == IF data.isStr THEN SelectSeq(data.v, LAMBDA cp : cp < 128) ELSE data.v
        r == SdkUploadBlob(st, container_name, blob_name, bytes, overwrite, fault) IN
    IF r.err # "none" THEN Raise(r.err, r.st, 1)
    ELSE [Return(r.st, 1) EXCEPT !.hContainer = container_name, !.hBlob = blob_name]

\* variant: the SDK call is made with a fixed overwrite flag
upload_blob_Fixed(st, container_name, blob_name, data, fixed, fault) ==
    LET enc == IF data.isStr THEN Utf8Encode(data.v) ELSE [err |-> "none", bytes |-> data.v] IN
    IF enc.err # "none" THEN Raise(enc.err, st, 0)
    ELSE LET r == SdkUploadBlob(st, container_name, blob_name, enc.bytes, fixed, fault) IN
         IF r.err # "none" THEN Raise(r.err, r.st, 1)
         ELSE [Return(r.st, 1) EXCEPT !.hContainer = container_name, !.hBlob = blob_name]

\* variant:  blob_client.upload_blob(data)  (the SDK's default: no overwrite)
upload_blob_NoFlag(st, container_name, blob_name, data, overwrite, fault) ==
    upload_blob_Fixed(st, container_name, blob_name, data, FALSE, fault)

\* variant:  blob_client.upload_blob(data, overwrite=True)
upload_blob_Always(st, container_name, blob_name, data, overwrite, fault) ==
    upload_blob_Fixed(st, container_name, blob_name, data, TRUE, fault)

upload_blob(st, container_name, blob_name, data, overwrite, fault) ==
    LET enc == IF data.isStr THEN Utf8Encode(data.v) ELSE [err |-> "none", bytes |-> data.v] IN
    IF enc.err # "none" THEN Raise(enc.err, st, 0)
    ELSE LET r == SdkUploadBlob(st, container_name, blob_name, enc.bytes, overwrite, fault) IN
         IF r.err # "none" THEN Raise(r.err, r.st, 1)
         ELSE [Return(r.st, 1) EXCEPT !.hContainer = container_name, !.hBlob = blob_name]

\* variant: ResourceNotFoundError is caught and b'' returned
download_blob_Swallow(st, container_name, blob_name, fault) ==
    LET r == SdkDownloadBlob(st, container_name, blob_name, fault) IN
    IF r.err = "ResourceNotFoundError" THEN Return(st, 1)
    ELSE IF r.err # "none" THEN Raise(r.err, st, 1)
    ELSE [Return(st, 1) EXCEPT !.bytes = r.bytes]

download_blob(st, container_name, blob_name, fault) ==
    LET r == SdkDownloadBlob(st, container_name, blob_name, fault) IN
    IF r.err # "none" THEN Raise(r.err, st, 1)
    ELSE [Return(st, 1) EXCEPT !.bytes = r.bytes]

get_blob_as_text(st, container_name, blob_name, encoding, fault) ==
    LET d == download_blob(st, container_name, blob_name, fault) IN
    IF d.err # "none" THEN d
    ELSE LET t == Decode(d.bytes, encoding) IN
         IF t.err # "none" THEN Raise(t.err, st, d.reqs)
         ELSE [Return(st, d.reqs) EXCEPT !.text = t.text]

\* variant: get_blob_properties is not called, get_blob_client sends nothing
blob_exists_NoRequest(st, container_name, blob_name, fault) ==
    [Return(st, 0) EXCEPT !.flag = TRUE]

\* variant:  except Exception: return False
blob_exists_CatchAll(st, container_name, blob_name, fault) ==
    LET r == SdkGetBlobProperties(st, container_name, blob_name, fault) IN
    IF r.err = "none" THEN [Return(st, 1) EXCEPT !.flag = TRUE]
    ELSE [Return(st, 1) EXCEPT !.flag = FALSE]

blob_exists(st, container_name, blob_name, fault) ==
    LET r == SdkGetBlobProperties(st, container_name, blob_name, fault) IN
    IF r.err = "none" THEN [Return(st, 1) EXCEPT !.flag = TRUE]
    ELSE IF r.err = "ResourceNotFoundError" THEN [Return(st, 1) EXCEPT !.flag = FALSE]
    ELSE Raise(r.err, st, 1)

delete_blob(st, container_name, blob_name, fault) ==
    LET r == SdkDeleteBlob(st, container_name, blob_name, fault) IN
    IF r.err # "none" THEN Raise(r.err, r.st, 1) ELSE Return(r.st, 1)

\* variant: ResourceNotFoundError is caught and ignored
delete_container_Quiet(st, container_name, fault) ==
    LET r == SdkDeleteContainer(st, container_name, fault) IN
    IF r.err = "ResourceNotFoundError" THEN Return(r.st, 1)
    ELSE IF r.err # "none" THEN Raise(r.err, r.st, 1) ELSE Return(r.st, 1)

delete_container(st, container_name, fault) ==
    LET r == SdkDeleteContainer(st, container_name, fault) IN
    IF r.err # "none" THEN Raise(r.err, r.st, 1) ELSE Return(r.st, 1)

\* variant:  [blob.container for blob in ...]
list_blobs_Container(st, container_name, order, fault) ==
    LET r == SdkListBlobs(st, container_name, order, fault) IN
    IF r.err # "none" THEN Raise(r.err, st, 1)
    ELSE [Return(st, 1) EXCEPT !.names = [i \in DOMAIN r.items |-> r.items[i].container]]

list_blobs(st, container_name, order, fault) ==
    LET r == SdkListBlobs(st, container_name, order, fault) IN
    IF r.err # "none" THEN Raise(r.err, st, 1)
    ELSE [Return(st, 1) EXCEPT !.names = [i \in DOMAIN r.items |-> r.items[i].name]]

-----------------------------------------------------------------------------
(* State machine *)

NoData == [isStr |-> FALSE, v |-> <<>>]

NoUpload == [up |-> FALSE, data |-> NoData]

Call(op, c, n) ==
    [op |-> op, container_name |-> c, blob_name |-> n, data |-> NoData,
     overwrite |-> FALSE, encoding |-> "", fault |-> "none",
     arg |-> NoneVal, env |-> NoneVal,
     hadContainer |-> FALSE, hadBlob |-> FALSE,
     err |-> "none", returned |-> FALSE, reqs |-> 0,
     bytes |-> <<>>, text |-> <<>>, names |-> <<>>, flag |-> FALSE,
     hContainer |-> "", hBlob |-> ""]

\* the record of a call on the account: its arguments, what it found, what it gave
Done(op, c, n, fault, r) ==
    [Call(op, c, n) EXCEPT
        !.fault = fault,
        !.hadContainer = store[c].exists,
        !.hadBlob = IF n = "" THEN store[c].exists /\ DOMAIN store[c].blobs # {}
                    ELSE HasBlob(store, c, n),
        !.err = r.err, !.returned = r.returned, !.reqs = r.reqs,
        !.bytes = r.bytes, !.text = r.text, !.names = r.names, !.flag = r.flag,
        !.hContainer = r.hContainer, !.hBlob = r.hBlob]

Init ==
    /\ store = [c \in Containers |-> AbsentContainer]
    /\ self = NoInstance
    /\ last = Call("", "", "")
    /\ lastUp = [c \in Containers |-> [n \in BlobNames |-> NoUpload]]

Construct(arg, env) ==
    LET r == AzureBlobStorage(arg, env) IN
    /\ self' = r.obj
    /\ last' = [Call("__init__", "", "") EXCEPT
                    !.arg = arg, !.env = env, !.err = r.err,
                    !.returned = (r.err = "none"), !.reqs = r.reqs]
    /\ UNCHANGED <<store, lastUp>>

CreateContainer(c, fault) ==
    LET r == create_container(store, c, fault) IN
    /\ self.constructed
    /\ store' = r.st
    /\ last' = Done("create_container", c, "", fault, r)
    /\ UNCHANGED <<self, lastUp>>

UploadBlob(c, n, data, overwrite, fault) ==
    LET r == upload_blob(store, c, n, data, overwrite, fault) IN
    /\ self.constructed
    /\ store' = r.st
    /\ last' = [Done("upload_blob", c, n, fault, r) EXCEPT
                    !.data = data, !.overwrite = overwrite]
    /\ lastUp' = IF r.err = "none"
                 THEN [lastUp EXCEPT ![c][n] = [up |-> TRUE, data |-> data]]
                 ELSE lastUp
    /\ UNCHANGED self

DownloadBlob(c, n, fault) ==
    LET r == download_blob(store, c, n, fault) IN
    /\ self.constructed
    /\ store' = r.st
    /\ last' = Done("download_blob", c, n, fault, r)
    /\ UNCHANGED <<self, lastUp>>

GetBlobAsText(c, n, encoding, fault) ==
    LET r == get_blob_as_text(store, c, n, encoding, fault) IN
    /\ self.constructed
    /\ store' = r.st
    /\ last' = [Done("get_blob_as_text", c, n, fault, r) EXCEPT !.encoding = encoding]
    /\ UNCHANGED <<self, lastUp>>

BlobExists(c, n, fault) ==
    LET r == blob_exists(store, c, n, fault) IN
    /\ self.constructed
    /\ store' = r.st
    /\ last' = Done("blob_exists", c, n, fault, r)
    /\ UNCHANGED <<self, lastUp>>

DeleteBlob(c, n, fault) ==
    LET r == delete_blob(store, c, n, fault) IN
    /\ self.constructed
    /\ store' = r.st
    /\ last' = Done("delete_blob", c, n, fault, r)
    /\ lastUp' = IF r.err = "none" THEN [lastUp EXCEPT ![c][n] = NoUpload] ELSE lastUp
    /\ UNCHANGED self

DeleteContainer(c, fault) ==
    LET r == delete_container(store, c, fault) IN
    /\ self.constructed
    /\ store' = r.st
    /\ last' = Done("delete_container", c, "", fault, r)
    /\ lastUp' = IF r.err = "none"
                 THEN [lastUp EXCEPT ![c] = [n \in BlobNames |-> NoUpload]]
                 ELSE lastUp
    /\ UNCHANGED self

ListBlobs(c, fault) ==
    \E order \in ListingOrders(store, c) :
        LET r == list_blobs(store, c, order, fault) IN
        /\ self.constructed
        /\ store' = r.st
        /\ last' = Done("list_blobs", c, "", fault, r)
        /\ UNCHANGED <<self, lastUp>>

Next ==
    \/ \E arg \in ArgCreds, env \in EnvCreds : Construct(arg, env)
    \/ \E c \in Containers, f \in Faults : CreateContainer(c, f)
    \/ \E t \in UploadTargets, d \in UploadData, o \in BOOLEAN, f \in Faults :
            UploadBlob(t[1], t[2], d, o, f)
    \/ \E c \in Containers, n \in BlobNames, f \in Faults : DownloadBlob(c, n, f)
    \/ \E c \in Containers, n \in BlobNames, e \in Encodings, f \in Faults :
            GetBlobAsText(c, n, e, f)
    \/ \E c \in Containers, n \in BlobNames, f \in Faults : BlobExists(c, n, f)
    \/ \E c \in Containers, n \in BlobNames, f \in Faults : DeleteBlob(c, n, f)
    \/ \E c \in Containers, f \in Faults : DeleteContainer(c, f)
    \/ \E c \in Containers, f \in Faults : ListBlobs(c, f)

Spec == Init /\ [][Next]_vars

-----------------------------------------------------------------------------
(* Properties *)

C1st == "test-container-1"

C2nd == "test-container-2"

\* the latest successful upload to the blob the latest call named
Uploaded == lastUp[last.container_name][last.blob_name]

\* data upload_blob can turn into bytes: any bytes, any str without surrogates
Transmittable(data) == ~data.isStr \/ Utf8Encode(data.v).err = "none"

AsBytes(data) == IF data.isStr THEN Utf8Encode(data.v).bytes ELSE data.v

StrSample == <<65, 233, 8364, 128512>>

\* C1: round trip.  While a blob holds the data C of its latest successful
\* upload_blob (no later write or delete of it), download_blob answered by the
\* service succeeds; for bytes C it returns exactly C, for str C it returns bytes
\* that are C in UTF-8, and get_blob_as_text (default encoding) succeeds and
\* returns C.
RoundTrip ==
    /\ (last.op = "download_blob" /\ last.fault = "none" /\ Uploaded.up) =>
            /\ last.err = "none" /\ last.returned
            /\ IF Uploaded.data.isStr
               THEN Utf8Decode(last.bytes) = [err |-> "none", text |-> Uploaded.data.v]
               ELSE last.bytes = Uploaded.data.v
    /\ (last.op = "get_blob_as_text" /\ last.encoding = "utf-8" /\ last.fault = "none"
            /\ Uploaded.up /\ Uploaded.data.isStr) =>
            /\ last.err = "none" /\ last.returned
            /\ last.text = Uploaded.data.v

RoundTripWitness ==
    /\ last.op = "get_blob_as_text" /\ last.encoding = "utf-8"
    /\ last.returned /\ last.text = StrSample
    /\ Uploaded.up /\ Uploaded.data.isStr

\* C2: last write wins.  upload_blob with overwrite=True of transmittable data to
\* an existing container, answered by the service, succeeds whether or not the
\* blob already held other content, and a download_blob that follows returns the
\* bytes of this upload.
LastWriteWins ==
    [][ LET c == last'.container_name
            n == last'.blob_name
        IN (/\ last'.op = "upload_blob" /\ last'.overwrite /\ last'.fault = "none"
            /\ store[c].exists /\ Transmittable(last'.data))
           => /\ last'.err = "none" /\ last'.returned
              /\ download_blob(store', c, n, "none").err = "none"
              /\ download_blob(store', c, n, "none").bytes = AsBytes(last'.data)
              /\ lastUp'[c][n] = [up |-> TRUE, data |-> last'.data] ]_vars

LastWriteWinsWitness ==
    /\ last.op = "upload_blob" /\ last.overwrite /\ last.returned
    /\ last.hadBlob
    /\ ~last.data.isStr
    /\ store[last.container_name].blobs[last.blob_name] = last.data.v

\* C3: blob_exists tracks uploads and deletes.  A blob_exists call answered by
\* the service returns true exactly when the blob was uploaded successfully and
\* neither it nor its container was deleted since.
ExistsTracksUploads ==
    (last.op = "blob_exists" /\ last.fault = "none") =>
        /\ last.err = "none" /\ last.returned
        /\ last.flag = Uploaded.up

ExistsTracksUploadsWitness ==
    /\ last.op = "blob_exists" /\ last.returned /\ last.flag
    /\ Uploaded.up

\* C4: list_blobs returns each blob of the container exactly once.  A list_blobs
\* that succeeds returns as many names as blobs were uploaded to that container
\* and not deleted, and the set of the names returned is the set of those blobs,
\* whatever the other container holds; on an existing container, answered by the
\* service, it succeeds.
ListBlobsExact ==
    LET c == last.container_name
        live == {n \in BlobNames : lastUp[c][n].up}
    IN /\ (last.op = "list_blobs" /\ last.err = "none") =>
            /\ last.returned
            /\ Len(last.names) = Cardinality(live)
            /\ {last.names[i] : i \in DOMAIN last.names} = live
       /\ (last.op = "list_blobs" /\ last.fault = "none" /\ last.hadContainer) =>
            last.err = "none"

ListBlobsExactWitness ==
    /\ last.op = "list_blobs" /\ last.returned
    /\ last.container_name = C2nd
    /\ last.names = <<BlobPool[1]>>
    /\ HasBlob(store, C1st, BlobPool[1]) /\ HasBlob(store, C1st, BlobPool[2])

\* C5: download_blob of a blob that is absent (never uploaded, or deleted, or in
\* a container that is absent) returns nothing: it raises ResourceNotFoundError
\* when the service answers and the transport error otherwise, and the account
\* is left as it was.
DownloadMissingNotFound ==
    [][ LET c == last'.container_name
            n == last'.blob_name
        IN last'.op = "download_blob" =>
            /\ store' = store
            /\ (~lastUp[c][n].up \/ ~store[c].exists) =>
                /\ ~last'.returned /\ last'.bytes = <<>>
                /\ last'.err = IF last'.fault = "none" THEN "ResourceNotFoundError"
                               ELSE last'.fault ]_vars

DownloadMissingWitness ==
    /\ last.op = "download_blob" /\ last.err = "ResourceNotFoundError"
    /\ last.hadContainer /\ ~last.hadBlob /\ ~last.returned

ExistsNeverNotFound ==
    last.op = "blob_exists" =>
        /\ last.err # "ResourceNotFoundError"
        /\ last.fault = "none" =>
                /\ last.err = "none" /\ last.returned
                /\ ~last.hadBlob => ~last.flag
        /\ last.fault # "none" =>
                /\ last.err = last.fault /\ ~last.returned /\ ~last.flag

ExistsNeverNotFoundWitness ==
    /\ last.op = "blob_exists" /\ ~last.hadContainer
    /\ last.fault = "none" /\ last.returned /\ ~last.flag

\* C8: upload_blob with overwrite=False of transmittable data to an existing
\* container, answered by the service: when the blob exists it raises
\* ResourceExistsError and the account is left as it was (a download returns the
\* earlier content); when the blob does not exist it succeeds and stores the data.
NoOverwriteConflict ==
    [][ LET c == last'.container_name
            n == last'.blob_name
        IN (/\ last'.op = "upload_blob" /\ ~last'.overwrite /\ last'.fault = "none"
            /\ store[c].exists /\ Transmittable(last'.data))
           => IF HasBlob(store, c, n)
              THEN /\ last'.err = "ResourceExistsError" /\ ~last'.returned
                   /\ store' = store
                   /\ download_blob(store', c, n, "none").bytes = store[c].blobs[n]
                   /\ lastUp' = lastUp
              ELSE /\ last'.err = "none" /\ last'.returned
                   /\ store' = PutBlob(store, c, n, AsBytes(last'.data))
                   /\ download_blob(store', c, n, "none").bytes = AsBytes(last'.data) ]_vars

NoOverwriteConflictWitness ==
    /\ last.op = "upload_blob" /\ ~last.overwrite
    /\ last.err = "ResourceExistsError" /\ last.hadBlob
    /\ last.data.isStr
    /\ store[last.container_name].blobs[last.blob_name] = <<66, 0, 255>>

\* C9: delete_container answered by the service.  On an existing container it
\* succeeds; afterwards blob_exists is false for every name in it, download_blob
\* and list_blobs on it raise ResourceNotFoundError, create_container under the
\* same name gives an empty container, and the other containers are as before.
\* On an absent container it raises ResourceNotFoundError and changes nothing.
DeleteContainerRemovesAll ==
    [][ LET c == last'.container_name
        IN (last'.op = "delete_container" /\ last'.fault = "none") =>
            IF store[c].exists
            THEN /\ last'.err = "none"
                 /\ \A n \in BlobNames :
                        /\ blob_exists(store', c, n, "none").returned
                        /\ ~blob_exists(store', c, n, "none").flag
                        /\ download_blob(store', c, n, "none").err = "ResourceNotFoundError"
                        /\ ~lastUp'[c][n].up
                 /\ list_blobs(store', c, <<>>, "none").err = "ResourceNotFoundError"
                 /\ create_container(store', c, "none").st[c] = EmptyContainer
                 /\ \A d \in Containers \ {c} : store'[d] = store[d] /\ lastUp'[d] = lastUp[d]
            ELSE /\ last'.err = "ResourceNotFoundError" /\ ~last'.returned
                 /\ store' = store /\ lastUp' = lastUp ]_vars

DeleteContainerRemovesAllWitness ==
    /\ last.op = "delete_container" /\ last.err = "none"
    /\ last.hadContainer /\ last.hadBlob
    /\ ~store[last.container_name].exists
    /\ \E d \in Containers \ {last.container_name} : DOMAIN store[d].blobs # {}

MissingCredential == "ValueError: Azure Storage connection string is required"

\* C10: construction.  The credential is the argument when one is given (not
\* None, not empty), otherwise the environment variable; construction raises the
\* missing-credential ValueError exactly when neither gives one, and then no
\* client handle exists; when it succeeds the handle is built from that
\* credential without a request to the service.
ConstructionCredential ==
    last.op = "__init__" =>
        LET chosen == IF Truthy(last.arg) THEN last.arg ELSE last.env IN
        /\ last.err = MissingCredential <=> (~Truthy(last.arg) /\ ~Truthy(last.env))
        /\ last.err # "none" =>
                ~self.constructed /\ self.blob_service_client = NoClient
        /\ last.err = "none" =>
                /\ self.constructed
                /\ self.connection_string = chosen
                /\ self.blob_service_client = [conn_str |-> chosen]
        /\ last.reqs = 0

ConstructionCredentialWitness ==
    /\ last.op = "__init__" /\ last.err = "none"
    /\ last.arg = "" /\ Truthy(last.env)
    /\ self.constructed /\ self.connection_string = last.env

====
